---- MODULE Spec2Model ----
(***************************************************************************)
(* The `version` attribute macro of serde-versions-derive (src/src/lib.rs) *)
(* as a state machine.  A build applies the macro to one decorated item    *)
(* (action Expand); when the emitted declarations are accepted by the      *)
(* compiler, the program may use the generated conversions and serialize   *)
(* through the `into`/`from` redirection.                                  *)
(*                                                                         *)
(* Identifiers and literals that the macro concatenates are sequences of   *)
(* one-character strings; field names, which it only copies, are strings.  *)
(* An optional value is a sequence of length 0 or 1.                       *)
(***************************************************************************)
EXTENDS Integers, Sequences, FiniteSets, TLC

VARIABLES item, attr, tokens, item2, attr2, tokens2, s, vs, vsVia, back, re, doc, de

vars == <<item, attr, tokens, item2, attr2, tokens2, s, vs, vsVia, back, re, doc, de>>

----------------------------------------------------------------------------
(* Bounds of the model *)

MaxNameLen == 2
MaxLitLen == 3
MaxFields == 2

(* the largest value of the wrapper's `version: u8` field *)
U8Max == 255

----------------------------------------------------------------------------
(* Inputs: decorated items and attribute arguments *)

NameChars == {"S", "v", "3"}
Digits == {"1", "3"}

SeqsUpTo(chars, lo, hi) == UNION {[1..n -> chars] : n \in lo..hi}

(* struct names: an identifier starts with a letter *)
Idents == {<<"S">> \o t : t \in SeqsUpTo(NameChars, 0, MaxNameLen - 1)}

(* the digits of a decimal integer literal *)
LitTexts == SeqsUpTo(Digits, 1, MaxLitLen)

(* a literal may carry the type suffix of the version field *)
Suffixes == {<<>>, <<"u", "8">>}

Attrs == {[kind |-> "LitInt", digits |-> t, suffix |-> x] : t \in LitTexts, x \in Suffixes}
           \cup {[kind |-> "Ident", digits |-> <<>>, suffix |-> <<>>]}

DeriveAttrs == <<"derive(Clone, Serialize, Deserialize)">>

FieldPool ==
  { [ident |-> "i", ty |-> "i32", attrs |-> <<>>],
    [ident |-> "name", ty |-> "String", attrs |-> <<>>],
    [ident |-> "version", ty |-> "u32", attrs |-> <<>>] }

(* a named-field body: distinct field names, in declaration order *)
NamedFieldLists ==
  {f \in SeqsUpTo(FieldPool, 0, MaxFields) :
     \A a, b \in 1..Len(f) : a # b => f[a].ident # f[b].ident}

TupleField == [ident |-> "", ty |-> "i32", attrs |-> <<>>]

Item(kind, style, ident, fields) ==
  [kind |-> kind, style |-> style, ident |-> ident, fields |-> fields,
   attrs |-> DeriveAttrs]

Items ==
  UNION {
    {Item("Struct", "Named", n, f) : f \in NamedFieldLists}
      \cup {Item("Struct", "Unnamed", n, <<>>),
            Item("Struct", "Unnamed", n, <<TupleField>>),
            Item("Struct", "Unit", n, <<>>),
            Item("Enum", "", n, <<>>),
            Item("Union", "", n, <<>>),
            Item("Fn", "", n, <<>>)}
    : n \in Idents}

NoItem == Item("", "", <<>>, <<>>)
NoAttr == [kind |-> "", digits |-> <<>>, suffix |-> <<>>]

----------------------------------------------------------------------------
(* The macro *)

(* LitInt::to_string: the literal's token, digits and suffix *)
LitToString(lit) == lit.digits \o lit.suffix

FormatIdentNoSep(name, ver) == <<"_">> \o name \o ver

(* format_ident!("_{}v{}", ident, version) *)
FormatIdent(name, ver) == <<"_">> \o name \o <<"v">> \o ver

VersionedNameStrOriginal(versioned_name, struct_name) == struct_name

(* versioned_name.to_string(), the type the serde directive names *)
VersionedNameStr(versioned_name, struct_name) == versioned_name

VersionField == [ident |-> "version", ty |-> "u8", attrs |-> <<>>]

InsertVersionNone(named) == named

(* fields.named.insert(0, version: u8) *)
InsertVersion(named) == <<VersionField>> \o named

FieldMappingBackReversed(named) ==
  [k \in 1..Len(named) |->
     [field |-> named[k].ident, base |-> "s", member |-> named[Len(named) + 1 - k].ident]]

FieldMappingReversed(named) ==
  [k \in 1..Len(named) |->
     [field |-> named[k].ident, base |-> "self", member |-> named[Len(named) + 1 - k].ident]]

(* #name : self . #name, for every field of the original *)
FieldMapping(named) ==
  [k \in 1..Len(named) |->
     [field |-> named[k].ident, base |-> "self", member |-> named[k].ident]]

(* #name : s . #name, for every field of the original *)
FieldMappingBack(named) ==
  [k \in 1..Len(named) |->
     [field |-> named[k].ident, base |-> "s", member |-> named[k].ident]]

VersionInitZero(lit) ==
  [field |-> "version", base |-> "lit", member |-> [lit EXCEPT !.digits = <<"0">>]]

(* version: #version, the first initializer of into_versioned *)
VersionInit(lit) == [field |-> "version", base |-> "lit", member |-> lit]

Failure(kind, msg) ==
  [kind |-> kind, msg |-> msg, serde |-> [into |-> <<>>, from |-> <<>>],
   original |-> NoItem, versioned |-> NoItem, method |-> "", from_calls |-> "",
   into_body |-> <<>>, back_body |-> <<>>]

(* the token stream of the Fields::Named arm *)
Bundle(lit, original_ast) ==
  LET versioned_name == FormatIdent(original_ast.ident, LitToString(lit))
      versioned_name_str == VersionedNameStr(versioned_name, original_ast.ident)
      versioned_ast == [original_ast EXCEPT !.ident = versioned_name,
                                            !.fields = InsertVersion(original_ast.fields)]
  IN [kind |-> "bundle", msg |-> "",
      serde |-> [into |-> versioned_name_str, from |-> versioned_name_str],
      original |-> original_ast,
      versioned |-> versioned_ast,
      method |-> "into_versioned",
      from_calls |-> "into_versioned",
      into_body |-> <<VersionInit(lit)>> \o FieldMapping(original_ast.fields),
      back_body |-> FieldMappingBack(original_ast.fields)]

(* pub fn version(attr, item) -> TokenStream *)
(* (the messages are the source's, without their backquotes) *)
version(a, it) ==
  IF it.kind \notin {"Struct", "Enum", "Union"}
    THEN Failure("compile_error", "expected one of: struct, enum, union")
  ELSE IF a.kind # "LitInt"
    THEN Failure("compile_error", "expected integer literal")
  ELSE IF it.kind = "Struct"
    THEN IF it.style = "Named"
           THEN Bundle(a, it)
           ELSE Failure("panic", "")
  ELSE Failure("panic", "version has to be used with structs ")

----------------------------------------------------------------------------
(* What the compiler and the running program make of the emitted tokens *)

DigitValue(c) == IF c = "0" THEN 0 ELSE IF c = "1" THEN 1 ELSE 3

RECURSIVE LitValue(_)
(* the number a sequence of decimal digits denotes *)
LitValue(text) ==
  IF text = <<>> THEN 0
  ELSE 10 * LitValue(SubSeq(text, 1, Len(text) - 1)) + DigitValue(text[Len(text)])

(* the literal is one the u8 field `version` takes: its suffix, if any, *)
(* is u8 and its value is in range                                      *)
LitFitsU8(lit) ==
  /\ lit.suffix \in {<<>>, <<"u", "8">>}
  /\ LitValue(lit.digits) <= U8Max

FieldIdents(fields) == {fields[k].ident : k \in 1..Len(fields)}

Distinct(seq) == \A a, b \in 1..Len(seq) : a # b => seq[a] # seq[b]

IdentsOf(fields) == [k \in 1..Len(fields) |-> fields[k].ident]

InitFields(body) == [k \in 1..Len(body) |-> body[k].field]

(* a struct literal names every field of its struct once, and reads only *)
(* members its operand has                                               *)
StructLitOk(body, target, operand) ==
  /\ Distinct(InitFields(body))
  /\ {body[k].field : k \in 1..Len(body)} = FieldIdents(target.fields)
  /\ \A k \in 1..Len(body) :
       IF body[k].base = "lit"
         THEN LitFitsU8(body[k].member)
         ELSE body[k].member \in FieldIdents(operand.fields)

(* the emitted declarations and impls are accepted by the compiler *)
Compiles(b) ==
  /\ b.kind = "bundle"
  /\ Distinct(IdentsOf(b.versioned.fields))
  /\ StructLitOk(b.into_body, b.versioned, b.original)
  /\ StructLitOk(b.back_body, b.original, b.versioned)
  /\ b.from_calls = b.method
  /\ b.serde.into \in {b.original.ident, b.versioned.ident}
  /\ b.serde.from \in {b.original.ident, b.versioned.ident}

(* the value of a struct literal whose initializers read `operand` *)
EvalStructLit(body, operand) ==
  [f \in {body[k].field : k \in 1..Len(body)} |->
     LET init == body[CHOOSE k \in 1..Len(body) : body[k].field = f]
     IN IF init.base = "lit" THEN LitValue(init.member.digits) ELSE operand[init.member]]

(* pub fn into_versioned(self) *)
into_versioned(b, self) == EvalStructLit(b.into_body, self)

(* impl From<S> for _SvN: s.into_versioned() *)
FromOriginal(b, x) == into_versioned(b, x)

(* impl From<_SvN> for S *)
FromVersioned(b, w) == EvalStructLit(b.back_body, w)

ValuesOf(ty) ==
  IF ty = "i32" THEN {"-4", "11"}
  ELSE IF ty = "String" THEN {"abc", ""}
  ELSE {"7"}

(* the values of a struct with the given named fields *)
StructValues(fields) ==
  {x \in [FieldIdents(fields) -> UNION {ValuesOf(fields[k].ty) : k \in 1..Len(fields)}] :
     \A k \in 1..Len(fields) : x[fields[k].ident] \in ValuesOf(fields[k].ty)}

PayloadVersions == {0, 3, U8Max}

(* wrapper values as an older or newer writer may have stored them *)
WrapperValues(b) ==
  {[f \in FieldIdents(b.versioned.fields) |-> IF f = "version" THEN v ELSE x[f]] :
     v \in PayloadVersions, x \in StructValues(b.original.fields)}

(* derive(Serialize) on a struct of plain named fields: one entry per field *)
SerializeStruct(decl, value) ==
  [k \in 1..Len(decl.fields) |->
     [key |-> decl.fields[k].ident, value |-> value[decl.fields[k].ident]]]

DocHas(d, key) == \E k \in 1..Len(d) : d[k].key = key

DocGet(d, key) == d[CHOOSE k \in 1..Len(d) : d[k].key = key].value

(* derive(Deserialize) on a struct of plain named fields *)
DeserializeStruct(decl, d) ==
  [f \in FieldIdents(decl.fields) |-> DocGet(d, f)]

(* serde(into = "..."): convert, then serialize the wrapper *)
SerializeVia(b, x) == SerializeStruct(b.versioned, FromOriginal(b, x))

(* serde(from = "..."): deserialize the wrapper, then convert *)
DeserializeVia(b, d) == FromVersioned(b, DeserializeStruct(b.versioned, d))

----------------------------------------------------------------------------
Init ==
  /\ item \in Items
  /\ attr \in Attrs
  /\ tokens = <<>>
  /\ item2 = NoItem
  /\ attr2 = NoAttr
  /\ tokens2 = <<>>
  /\ s = <<>>
  /\ vs = <<>>
  /\ vsVia = ""
  /\ back = <<>>
  /\ re = <<>>
  /\ doc = <<>>
  /\ de = <<>>

(* the compiler expands #[version(attr)] on the item *)
Expand ==
  /\ tokens = <<>>
  /\ tokens' = <<version(attr, item)>>
  /\ UNCHANGED <<item, attr, item2, attr2, tokens2, s, vs, vsVia, back, re, doc, de>>

Built == tokens # <<>> /\ Compiles(tokens[1])

(* the program constructs a value of the original type *)
Construct ==
  /\ Built
  /\ s = <<>>
  /\ vs = <<>>
  /\ \E x \in StructValues(tokens[1].original.fields) : s' = <<x>>
  /\ UNCHANGED <<item, attr, tokens, item2, attr2, tokens2, vs, vsVia, back, re, doc, de>>

(* x.into_versioned(), on a constructed value or on a converted-back one *)
IntoVersioned ==
  /\ Built
  /\ \/ /\ s # <<>>
        /\ vs = <<>>
        /\ vs' = <<into_versioned(tokens[1], s[1])>>
        /\ vsVia' = "into_versioned"
        /\ UNCHANGED re
     \/ /\ back # <<>>
        /\ re = <<>>
        /\ re' = <<into_versioned(tokens[1], back[1])>>
        /\ UNCHANGED <<vs, vsVia>>
  /\ UNCHANGED <<item, attr, tokens, item2, attr2, tokens2, s, back, doc, de>>

(* the forward conversion, From<S> for the wrapper *)
ConvertForward ==
  /\ Built
  /\ s # <<>>
  /\ vs = <<>>
  /\ vs' = <<FromOriginal(tokens[1], s[1])>>
  /\ vsVia' = "from"
  /\ UNCHANGED <<item, attr, tokens, item2, attr2, tokens2, s, back, re, doc, de>>

(* a wrapper value arrives from elsewhere, its version tag arbitrary *)
ReceivePayload ==
  /\ Built
  /\ s = <<>>
  /\ vs = <<>>
  /\ \E y \in WrapperValues(tokens[1]) : vs' = <<y>>
  /\ vsVia' = "payload"
  /\ UNCHANGED <<item, attr, tokens, item2, attr2, tokens2, s, back, re, doc, de>>

(* the backward conversion, From<wrapper> for S *)
ConvertBackward ==
  /\ Built
  /\ vs # <<>>
  /\ back = <<>>
  /\ back' = <<FromVersioned(tokens[1], vs[1])>>
  /\ UNCHANGED <<item, attr, tokens, item2, attr2, tokens2, s, vs, vsVia, re, doc, de>>

(* the collaborator serializes a value of the original type *)
Serialize ==
  /\ Built
  /\ tokens[1].serde.into = tokens[1].versioned.ident
  /\ s # <<>>
  /\ doc = <<>>
  /\ doc' = <<SerializeVia(tokens[1], s[1])>>
  /\ UNCHANGED <<item, attr, tokens, item2, attr2, tokens2, s, vs, vsVia, back, re, de>>

(* the collaborator deserializes the document into the original type *)
Deserialize ==
  /\ Built
  /\ tokens[1].serde.from = tokens[1].versioned.ident
  /\ doc # <<>>
  /\ de = <<>>
  /\ \A f \in FieldIdents(tokens[1].versioned.fields) : DocHas(doc[1], f)
  /\ de' = <<DeserializeVia(tokens[1], doc[1])>>
  /\ UNCHANGED <<item, attr, tokens, item2, attr2, tokens2, s, vs, vsVia, back, re, doc>>

Next ==
  \/ Expand
  \/ Construct
  \/ IntoVersioned
  \/ ConvertForward
  \/ ReceivePayload
  \/ ConvertBackward
  \/ Serialize
  \/ Deserialize

Spec == Init /\ [][Next]_vars

----------------------------------------------------------------------------
(* Two applications of the macro in one scope *)

NamedItems == {it \in Items : it.kind = "Struct" /\ it.style = "Named" /\ Len(it.fields) = 1
                              /\ it.fields[1].ident = "i"}
LitAttrs == {a \in Attrs : a.kind = "LitInt"}

InitNames ==
  /\ item \in NamedItems
  /\ attr \in LitAttrs
  /\ item2 \in NamedItems
  /\ attr2 \in LitAttrs
  /\ tokens = <<>>
  /\ tokens2 = <<>>
  /\ s = <<>>
  /\ vs = <<>>
  /\ vsVia = ""
  /\ back = <<>>
  /\ re = <<>>
  /\ doc = <<>>
  /\ de = <<>>

(* the compiler expands the second #[version(..)] of the scope *)
Expand2 ==
  /\ tokens # <<>>
  /\ tokens2 = <<>>
  /\ tokens2' = <<version(attr2, item2)>>
  /\ UNCHANGED <<item, attr, tokens, item2, attr2, s, vs, vsVia, back, re, doc, de>>

NextNames == Expand \/ Expand2

SpecNames == InitNames /\ [][NextNames]_vars

----------------------------------------------------------------------------
(* Properties *)

Expanded == tokens # <<>>
Emitted == tokens # <<>> /\ tokens[1].kind = "bundle"
Forwarded == vs # <<>> /\ vsVia \in {"into_versioned", "from"}
Tag == LitValue(attr.digits)

(* C1: converting a value of the original type forward and then backward *)
(* returns that value.                                                   *)
C1_RoundTrip == (Forwarded /\ back # <<>>) => back[1] = s[1]

C1_Witness ==
  /\ Forwarded
  /\ back # <<>>
  /\ Len(item.fields) = 2
  /\ back[1] = s[1]
  /\ s[1]["i"] = "-4"
  /\ s[1]["name"] = "abc"

(* C2: the wrapper returned by into_versioned and by the forward          *)
(* conversion carries exactly the version given to the macro, whatever    *)
(* the value converted.                                                   *)
C2_TagStamping == Forwarded => vs[1]["version"] = Tag

C2_Witness ==
  /\ Forwarded
  /\ vsVia = "into_versioned"
  /\ IdentsOf(item.fields) = <<"i">>
  /\ LitToString(attr) = <<"1">>
  /\ vs[1]["version"] = 1
  /\ s[1]["i"] = "11"

DocKeys(d) == [k \in 1..Len(d) |-> d[k].key]

(* C3: the serde directive names the emitted wrapper; a serialized value  *)
(* is a document with a version entry equal to the tag and one entry per  *)
(* field, all at one level; deserializing it yields the value, which has  *)
(* no version field.                                                      *)
C3_EndToEnd ==
  /\ Emitted => /\ tokens[1].serde.into = tokens[1].versioned.ident
                /\ tokens[1].serde.from = tokens[1].versioned.ident
  /\ doc # <<>> => /\ DocKeys(doc[1]) = <<"version">> \o IdentsOf(item.fields)
                   /\ DocGet(doc[1], "version") = Tag
                   /\ \A f \in FieldIdents(item.fields) : DocGet(doc[1], f) = s[1][f]
  /\ de # <<>> => /\ de[1] = s[1]
                  /\ "version" \notin DOMAIN de[1]

C3_Witness ==
  /\ de # <<>>
  /\ LitToString(attr) = <<"1">>
  /\ doc[1] = <<[key |-> "version", value |-> 1], [key |-> "i", value |-> "11"]>>
  /\ de[1] = s[1]

(* C4: the wrapper has exactly the two fields of the crate documentation, *)
(* version: u8 and a flattened inner holding the original record.         *)
C4_WrapperShape ==
  Emitted =>
    /\ Len(tokens[1].versioned.fields) = 2
    /\ tokens[1].versioned.fields[1] = VersionField
    /\ tokens[1].versioned.fields[2].ident = "inner"
    /\ tokens[1].versioned.fields[2].attrs = <<"serde(flatten)">>

Unsupported(it) ==
  \/ it.kind = "Enum"
  \/ it.kind = "Struct" /\ it.style \in {"Unnamed", "Unit"}

(* C5: an enum, a tuple struct or a unit struct is rejected at compile    *)
(* time, no wrapper is emitted, and the failure carries a descriptive     *)
(* diagnostic.                                                            *)
C5_Rejection ==
  (Expanded /\ Unsupported(item)) =>
    /\ tokens[1].kind \in {"panic", "compile_error"}
    /\ tokens[1].versioned = NoItem
    /\ tokens[1].msg # ""

ZeroFields == item.kind = "Struct" /\ item.fields = <<>>

C7_NameInjective ==
  (tokens # <<>> /\ tokens2 # <<>>) =>
    (tokens[1].versioned.ident = tokens2[1].versioned.ident
       <=> (item.ident = item2.ident /\ attr = attr2))

C7_Witness ==
  /\ tokens # <<>>
  /\ tokens2 # <<>>
  /\ item.ident = <<"S", "3">>
  /\ LitToString(attr) = <<"1">>
  /\ item2.ident = <<"S">>
  /\ LitToString(attr2) = <<"3", "1">>
  /\ tokens[1].versioned.ident # tokens2[1].versioned.ident

(* C8: the emitted bundle gives the original type a method named         *)
(* to_versioned.                                                          *)
C8_ToVersioned == Emitted => tokens[1].method = "to_versioned"

(* C9: the backward conversion of a wrapper value does not depend on its  *)
(* version, and converting the result forward gives the wrapper value     *)
(* with its version replaced by the macro's tag.                          *)
C9_Restamp ==
  /\ (vsVia = "payload" /\ back # <<>>) =>
       \A v \in PayloadVersions :
         FromVersioned(tokens[1], [vs[1] EXCEPT !["version"] = v]) = back[1]
  /\ (vsVia = "payload" /\ re # <<>>) =>
       re[1] = [vs[1] EXCEPT !["version"] = Tag]

C9_Witness ==
  /\ vsVia = "payload"
  /\ re # <<>>
  /\ Len(item.fields) = 2
  /\ vs[1]["version"] = U8Max
  /\ Tag = 3
  /\ re[1]["version"] = 3
  /\ re[1]["name"] = "abc"

(* C10: the wrapper's field names are pairwise distinct with exactly one  *)
(* version, in first position, and into_versioned assigns version once.   *)
C10_DistinctFields ==
  Emitted =>
    /\ Distinct(IdentsOf(tokens[1].versioned.fields))
    /\ tokens[1].versioned.fields[1].ident = "version"
    /\ Cardinality({k \in 1..Len(tokens[1].versioned.fields) :
                      tokens[1].versioned.fields[k].ident = "version"}) = 1
    /\ Cardinality({k \in 1..Len(tokens[1].into_body) :
                      tokens[1].into_body[k].field = "version"}) = 1
====
